---- MODULE Spec2Model ----
(***************************************************************************)
(* CDPBrowserProvider (src/src/browser-providers/cdp.ts): a provider that  *)
(* validates a WebSocket endpoint, delegates the connection to             *)
(* chromium.connectOverCDP, stores the resulting Browser in `session`, and *)
(* exposes start / close / getSession.                                     *)
(*                                                                         *)
(* JavaScript values are tagged records ([t |-> "string", s |-> chars],    *)
(* [t |-> "undefined"], [t |-> "browser", id |-> n], ...), strings are     *)
(* sequences of tokens (a token is one character, or one chunk of literal  *)
(* message text).  An async method is one action per synchronous segment:  *)
(* the part up to its await, and the part that runs when the awaited       *)
(* promise settles.                                                        *)
(***************************************************************************)
EXTENDS Integers, Sequences, FiniteSets, TLC

VARIABLES phase, ctorError, wsEndpoint, options, debug, session,
          attempts, closeReqs, calls, log, clock, tester

vars == <<phase, ctorError, wsEndpoint, options, debug, session,
          attempts, closeReqs, calls, log, clock, tester>>

(* ------------------------------ bounds --------------------------------- *)

\* number of method calls made on one provider instance
MaxCalls == 3

(* --------------------------- JavaScript values ------------------------- *)

Undefined == [t |-> "undefined"]

Null == [t |-> "null"]

Str(s) == [t |-> "string", s |-> s]

Bool(b) == [t |-> "bool", b |-> b]

Browser(n) == [t |-> "browser", id |-> n]

Obj(n) == [t |-> "object", id |-> n]

ErrorObj(m) == [t |-> "Error", message |-> m]

\* JavaScript truthiness, as used by `!x`, `x && y`
Truthy(v) ==
    CASE v.t = "undefined" -> FALSE
      [] v.t = "null"      -> FALSE
      [] v.t = "string"    -> v.s # <<>>
      [] v.t = "bool"      -> v.b
      [] OTHER             -> TRUE

\* String.prototype.startsWith
StartsWith(s, p) == Len(s) >= Len(p) /\ SubSeq(s, 1, Len(p)) = p

\* String.prototype.includes
Contains(s, sub) ==
    \E i \in 0..(Len(s) - Len(sub)) : SubSeq(s, i + 1, i + Len(sub)) = sub

\* String(value) for the values a rejected promise can carry
ToStringJS(v) ==
    CASE v.t = "string"    -> v.s
      [] v.t = "undefined" -> <<"u", "n", "d", "e", "f", "i", "n", "e", "d">>
      [] v.t = "null"      -> <<"n", "u", "l", "l">>
      [] v.t = "bool"      -> IF v.b THEN <<"t", "r", "u", "e">>
                                     ELSE <<"f", "a", "l", "s", "e">>
      [] v.t = "Error"     -> <<"E", "r", "r", "o", "r", ":", " ">> \o v.message
      [] OTHER             -> <<"[object Object]">>

(* ------------------------------- inputs -------------------------------- *)

wsPrefix == <<"w", "s", ":", "/", "/">>

wssPrefix == <<"w", "s", "s", ":", "/", "/">>

\* endpoint strings handed to the constructor
EndpointStrings ==
    { <<>>,
      <<"w", "s", ":", "/", "/", "h">>,
      <<"w", "s", "s", ":", "/", "/", "h">>,
      <<"W", "S", ":", "/", "/", "h">>,
      <<"w", "s", ":", "/", "h">>,
      <<"h", "t", "t", "p", ":", "/", "/", "h">>,
      <<" ", "w", "s", ":", "/", "/", "h">> }

\* the options bag of a configuration, e.g. { timeout: 10000 }
OptionValues == { Obj(1) }

DebugValues == { Undefined, Bool(TRUE), Bool(FALSE) }

NoArgument == [t |-> "noarg"]

\* what a caller can pass to `new CDPBrowserProvider(...)`
Configs ==
    { NoArgument } \cup
    { [t |-> "config", wsEndpoint |-> e, options |-> o, debug |-> d] :
        e \in { Str(s) : s \in EndpointStrings } \cup { Undefined },
        o \in OptionValues,
        d \in DebugValues }

\* what `browser.contexts().length` can be on a fresh connection
ContextCounts == { 0, 1 }

\* what the external library can reject (or throw) with
Thrown ==
    { ErrorObj(<<"E", "C", "O", "N", "N">>),
      Undefined }

(* ----------------------------- constructor ----------------------------- *)

\* default parameter value: `config: CDPBrowserConfig = { wsEndpoint: "" }`
EffectiveConfig(config) ==
    IF config = NoArgument
    THEN [t |-> "config", wsEndpoint |-> Str(<<>>), options |-> Undefined,
          debug |-> Undefined]
    ELSE config

\* variant: only an absent endpoint is rejected, the empty string passes
EndpointMissingOnlyUndefined(config) ==
    EffectiveConfig(config).wsEndpoint = Undefined

\* `if (!config.wsEndpoint)`
EndpointMissing(config) == ~Truthy(EffectiveConfig(config).wsEndpoint)

ConfigError == ErrorObj(<<"CDP wsEndpoint is required but was not provided">>)

\* `config.debug ?? false`
DebugOrDefault(d) == IF d.t \in {"undefined", "null"} THEN FALSE ELSE d.b

\* no example driver is running
NoTester == [kind |-> "none"]

Init ==
    /\ tester = NoTester
    /\ phase = "new"
    /\ ctorError = Undefined
    /\ wsEndpoint = Undefined
    /\ options = Undefined
    /\ debug = FALSE
    /\ session = Undefined
    /\ attempts = <<>>
    /\ closeReqs = <<>>
    /\ calls = <<>>
    /\ log = <<>>
    /\ clock = 0

\* new CDPBrowserProvider(config)
Constructor(config) ==
    /\ UNCHANGED tester
    /\ phase = "new"
    /\ clock' = clock + 1
    /\ IF EndpointMissing(config)
       THEN /\ phase' = "ctorThrew"
            /\ ctorError' = ConfigError
            /\ UNCHANGED <<wsEndpoint, options, debug>>
       ELSE /\ phase' = "constructed"
            /\ wsEndpoint' = EffectiveConfig(config).wsEndpoint
            /\ options' = EffectiveConfig(config).options
            /\ debug' = DebugOrDefault(EffectiveConfig(config).debug)
            /\ UNCHANGED ctorError
    /\ UNCHANGED <<session, attempts, closeReqs, calls, log>>

(* -------------------------------- start -------------------------------- *)

\* variant: the scheme check stops at "ws", so "ws:/h" passes
ValidEndpointFormatLoose(ep) == StartsWith(ep, <<"w", "s">>)

\* `startsWith('ws://') || startsWith('wss://')`
ValidEndpointFormat(ep) == StartsWith(ep, wsPrefix) \/ StartsWith(ep, wssPrefix)

FormatError(ep) ==
    ErrorObj(<<"Invalid CDP WebSocket endpoint format: ">> \o ep
             \o <<". Must start with ws:// or wss://">>)

\* `error instanceof Error ? error.message : String(error)`
ErrorMessageOf(cause) ==
    IF cause.t = "Error" THEN cause.message ELSE ToStringJS(cause)

\* variant: the wrapped error drops the cause
ConnectErrorNoCause(ep, cause) ==
    ErrorObj(<<"Failed to connect to CDP WebSocket endpoint: ">> \o ep)

ConnectError(ep, cause) ==
    ErrorObj(<<"Failed to connect to CDP WebSocket endpoint: ">> \o ep
             \o <<". ">> \o ErrorMessageOf(cause))

\* chromium.connectOverCDP({ endpointURL: this.wsEndpoint, ...this.options })
IssueConnect(atts, c, ep, opts) ==
    Append(atts, [caller |-> c, endpointURL |-> ep, options |-> opts,
                  status |-> "pending", browser |-> Undefined,
                  cause |-> Undefined])

\* a call record; begin/end are the clock values of its two segments
NewCall(op, now) ==
    [op |-> op, pc |-> "await", begin |-> now, end |-> 0, attempt |-> 0,
     req |-> 0, result |-> Undefined, error |-> Undefined]

CanCall == phase = "constructed" /\ Len(calls) < MaxCalls

\* variant: a provider that already holds a session refuses to connect again
StartCallOnlyOnce ==
    /\ UNCHANGED tester
    /\ CanCall
    /\ clock' = clock + 1
    /\ log' = IF debug THEN Append(log, <<"log", "Connecting">>) ELSE log
    /\ IF ~ValidEndpointFormat(wsEndpoint.s) \/ session # Undefined
       THEN /\ calls' = Append(calls,
                   [NewCall("start", clock') EXCEPT
                       !.pc = "threw", !.end = clock',
                       !.error = FormatError(wsEndpoint.s)])
            /\ UNCHANGED attempts
       ELSE /\ attempts' = IssueConnect(attempts, Len(calls) + 1,
                                        wsEndpoint.s, options)
            /\ calls' = Append(calls,
                   [NewCall("start", clock') EXCEPT
                       !.attempt = Len(attempts')])
    /\ UNCHANGED <<phase, ctorError, wsEndpoint, options, debug, session,
                   closeReqs>>

\* start(), up to `await chromium.connectOverCDP(...)`
StartCall ==
    /\ UNCHANGED tester
    /\ CanCall
    /\ clock' = clock + 1
    /\ log' = IF debug THEN Append(log, <<"log", "Connecting">>) ELSE log
    /\ IF ~ValidEndpointFormat(wsEndpoint.s)
       THEN /\ calls' = Append(calls,
                   [NewCall("start", clock') EXCEPT
                       !.pc = "threw", !.end = clock',
                       !.error = FormatError(wsEndpoint.s)])
            /\ UNCHANGED attempts
       ELSE /\ attempts' = IssueConnect(attempts, Len(calls) + 1,
                                        wsEndpoint.s, options)
            /\ calls' = Append(calls,
                   [NewCall("start", clock') EXCEPT
                       !.attempt = Len(attempts')])
    /\ UNCHANGED <<phase, ctorError, wsEndpoint, options, debug, session,
                   closeReqs>>

\* calls of start() suspended at the await
AwaitingStart(c) ==
    /\ c \in 1..Len(calls)
    /\ calls[c].op = "start"
    /\ calls[c].pc = "await"
    /\ attempts[calls[c].attempt].status = "pending"

\* variant: the Browser is returned without being stored
StoreSessionNever(sess, browser) == sess

\* variant: only the first Browser is stored
StoreSessionOnce(sess, browser) == IF sess = Undefined THEN browser ELSE sess

\* variant: a Browser of a later-issued attempt is not replaced by an
\* earlier-issued one
StoreSessionNewestCall(sess, browser) ==
    IF sess.t = "browser" /\ sess.id > browser.id THEN sess ELSE browser

\* `this.session = browser`
StoreSession(sess, browser) == browser

\* start(), after the connect promise resolves with a new Browser object;
\* nctx is `browser.contexts().length`, read (and logged) only under debug
StartConnected(c, nctx) ==
    /\ UNCHANGED tester
    /\ AwaitingStart(c)
    /\ clock' = clock + 1
    /\ attempts' = [attempts EXCEPT
                       ![calls[c].attempt].status = "resolved",
                       ![calls[c].attempt].browser = Browser(calls[c].attempt)]
    /\ session' = StoreSession(session, attempts'[calls[c].attempt].browser)
    /\ log' = IF debug
              THEN log \o << <<"log", "Successfully connected">>,
                             <<"log", "contexts", nctx>> >>
              ELSE log
    /\ calls' = [calls EXCEPT ![c].pc = "returned", ![c].end = clock',
                              ![c].result = session']
    /\ UNCHANGED <<phase, ctorError, wsEndpoint, options, debug, closeReqs>>

\* variant: the catch block connects once more before giving up
StartFailedRetry(c, cause) ==
    /\ UNCHANGED tester
    /\ AwaitingStart(c)
    /\ clock' = clock + 1
    /\ attempts' = IssueConnect(
                       [attempts EXCEPT ![calls[c].attempt].status = "rejected",
                                        ![calls[c].attempt].cause = cause],
                       c, wsEndpoint.s, options)
    /\ calls' = [calls EXCEPT ![c].attempt = Len(attempts')]
    /\ UNCHANGED <<phase, ctorError, wsEndpoint, options, debug, session,
                   closeReqs, log>>

\* variant: the catch block drops the stored session
StartFailedClears(c, cause) ==
    /\ UNCHANGED tester
    /\ AwaitingStart(c)
    /\ clock' = clock + 1
    /\ attempts' = [attempts EXCEPT ![calls[c].attempt].status = "rejected",
                                    ![calls[c].attempt].cause = cause]
    /\ log' = IF debug
              THEN log \o << <<"error", "Failed to connect", ErrorMessageOf(cause)>>,
                             <<"error", "Make sure Chrome is running">>,
                             <<"error", "Example">> >>
              ELSE log
    /\ session' = Undefined
    /\ calls' = [calls EXCEPT ![c].pc = "threw", ![c].end = clock',
                              ![c].error = ConnectError(wsEndpoint.s, cause)]
    /\ UNCHANGED <<phase, ctorError, wsEndpoint, options, debug, closeReqs>>

\* variant: the catch block reports the failure on the console whether or
\* not debug is set
StartFailedAlwaysLogs(c, cause) ==
    /\ UNCHANGED tester
    /\ AwaitingStart(c)
    /\ clock' = clock + 1
    /\ attempts' = [attempts EXCEPT ![calls[c].attempt].status = "rejected",
                                    ![calls[c].attempt].cause = cause]
    /\ log' = log \o << <<"error", "Failed to connect", ErrorMessageOf(cause)>>,
                        <<"error", "Make sure Chrome is running">>,
                        <<"error", "Example">> >>
    /\ calls' = [calls EXCEPT ![c].pc = "threw", ![c].end = clock',
                              ![c].error = ConnectError(wsEndpoint.s, cause)]
    /\ UNCHANGED <<phase, ctorError, wsEndpoint, options, debug, session,
                   closeReqs>>

\* start(), after the connect promise rejects: the catch block
StartFailed(c, cause) ==
    /\ UNCHANGED tester
    /\ AwaitingStart(c)
    /\ clock' = clock + 1
    /\ attempts' = [attempts EXCEPT ![calls[c].attempt].status = "rejected",
                                    ![calls[c].attempt].cause = cause]
    /\ log' = IF debug
              THEN log \o << <<"error", "Failed to connect", ErrorMessageOf(cause)>>,
                             <<"error", "Make sure Chrome is running">>,
                             <<"error", "Example">> >>
              ELSE log
    /\ calls' = [calls EXCEPT ![c].pc = "threw", ![c].end = clock',
                              ![c].error = ConnectError(wsEndpoint.s, cause)]
    /\ UNCHANGED <<phase, ctorError, wsEndpoint, options, debug, session,
                   closeReqs>>

(* -------------------------------- close -------------------------------- *)

\* variant: `this.session.close()` without the optional chain
HasCloseTargetAlways(sess) == TRUE

\* `this.session?.`: the call is made unless session is null or undefined
HasCloseTarget(sess) == sess.t \notin {"undefined", "null"}

\* variant: the field is cleared before the close is awaited
CloseCallClears ==
    /\ UNCHANGED tester
    /\ CanCall
    /\ clock' = clock + 1
    /\ log' = IF debug /\ Truthy(session)
              THEN Append(log, <<"log", "Closing">>) ELSE log
    /\ session' = Undefined
    /\ IF ~HasCloseTarget(session)
       THEN /\ calls' = Append(calls, NewCall("close", clock'))
            /\ UNCHANGED closeReqs
       ELSE /\ closeReqs' = Append(closeReqs,
                   [caller |-> Len(calls) + 1, target |-> session,
                    status |-> "pending", cause |-> Undefined])
            /\ calls' = Append(calls,
                   [NewCall("close", clock') EXCEPT !.req = Len(closeReqs')])
    /\ UNCHANGED <<phase, ctorError, wsEndpoint, options, debug, attempts>>

\* close(), up to `await this.session?.close()`
CloseCall ==
    /\ UNCHANGED tester
    /\ CanCall
    /\ clock' = clock + 1
    /\ log' = IF debug /\ Truthy(session)
              THEN Append(log, <<"log", "Closing">>) ELSE log
    /\ IF ~HasCloseTarget(session)
       THEN /\ calls' = Append(calls, NewCall("close", clock'))
            /\ UNCHANGED closeReqs
       ELSE /\ closeReqs' = Append(closeReqs,
                   [caller |-> Len(calls) + 1, target |-> session,
                    status |-> "pending", cause |-> Undefined])
            /\ calls' = Append(calls,
                   [NewCall("close", clock') EXCEPT !.req = Len(closeReqs')])
    /\ UNCHANGED <<phase, ctorError, wsEndpoint, options, debug, session,
                   attempts>>

\* calls of close() suspended at the await
AwaitingClose(c) ==
    /\ c \in 1..Len(calls)
    /\ calls[c].op = "close"
    /\ calls[c].pc = "await"

\* variant: a close() that found no session looks again after its await and
\* closes the session stored meanwhile
CloseDoneClosesLate(c) ==
    /\ UNCHANGED tester
    /\ AwaitingClose(c)
    /\ clock' = clock + 1
    /\ closeReqs' =
          IF calls[c].req # 0
          THEN [closeReqs EXCEPT ![calls[c].req].status = "resolved"]
          ELSE IF HasCloseTarget(session)
               THEN Append(closeReqs, [caller |-> c, target |-> session,
                                       status |-> "resolved",
                                       cause |-> Undefined])
               ELSE closeReqs
    /\ calls' = [calls EXCEPT ![c].pc = "returned", ![c].end = clock']
    /\ UNCHANGED <<phase, ctorError, wsEndpoint, options, debug, session,
                   attempts, log>>

\* variant: the session is cleared once the close has completed
CloseDoneClears(c) ==
    /\ UNCHANGED tester
    /\ AwaitingClose(c)
    /\ clock' = clock + 1
    /\ closeReqs' = IF calls[c].req = 0 THEN closeReqs
                    ELSE [closeReqs EXCEPT ![calls[c].req].status = "resolved"]
    /\ calls' = [calls EXCEPT ![c].pc = "returned", ![c].end = clock']
    /\ session' = Undefined
    /\ UNCHANGED <<phase, ctorError, wsEndpoint, options, debug,
                   attempts, log>>

\* close(), after the awaited value (undefined, or the library's close
\* promise) is fulfilled
CloseDone(c) ==
    /\ UNCHANGED tester
    /\ AwaitingClose(c)
    /\ clock' = clock + 1
    /\ closeReqs' = IF calls[c].req = 0 THEN closeReqs
                    ELSE [closeReqs EXCEPT ![calls[c].req].status = "resolved"]
    /\ calls' = [calls EXCEPT ![c].pc = "returned", ![c].end = clock']
    /\ UNCHANGED <<phase, ctorError, wsEndpoint, options, debug, session,
                   attempts, log>>

\* variant: close() wraps the library's error the way start() does
CloseFailedWraps(c, cause) ==
    /\ UNCHANGED tester
    /\ AwaitingClose(c)
    /\ calls[c].req # 0
    /\ clock' = clock + 1
    /\ closeReqs' = [closeReqs EXCEPT ![calls[c].req].status = "rejected",
                                      ![calls[c].req].cause = cause]
    /\ calls' = [calls EXCEPT ![c].pc = "threw", ![c].end = clock',
                              ![c].error = ConnectError(wsEndpoint.s, cause)]
    /\ UNCHANGED <<phase, ctorError, wsEndpoint, options, debug, session,
                   attempts, log>>

\* close(), after the library's close promise rejects: nothing catches it
CloseFailed(c, cause) ==
    /\ UNCHANGED tester
    /\ AwaitingClose(c)
    /\ calls[c].req # 0
    /\ clock' = clock + 1
    /\ closeReqs' = [closeReqs EXCEPT ![calls[c].req].status = "rejected",
                                      ![calls[c].req].cause = cause]
    /\ calls' = [calls EXCEPT ![c].pc = "threw", ![c].end = clock',
                              ![c].error = cause]
    /\ UNCHANGED <<phase, ctorError, wsEndpoint, options, debug, session,
                   attempts, log>>

(* ------------------------------ getSession ----------------------------- *)

\* variant: the field is returned as it is
getSessionRaw(sess) == sess

\* `if (!this.session) return null; return this.session;`
getSession(sess) == IF ~Truthy(sess) THEN Null ELSE sess

\* getSession() is synchronous: one segment
GetSessionCall ==
    /\ UNCHANGED tester
    /\ CanCall
    /\ clock' = clock + 1
    /\ calls' = Append(calls,
           [NewCall("getSession", clock') EXCEPT
               !.pc = "returned", !.end = clock',
               !.result = getSession(session)])
    /\ UNCHANGED <<phase, ctorError, wsEndpoint, options, debug, session,
                   attempts, closeReqs, log>>

(* ----------------------------- specification --------------------------- *)

Next ==
    \/ \E config \in Configs : Constructor(config)
    \/ StartCall
    \/ \E c \in 1..MaxCalls, nctx \in ContextCounts : StartConnected(c, nctx)
    \/ \E c \in 1..MaxCalls, cause \in Thrown : StartFailed(c, cause)
    \/ CloseCall
    \/ \E c \in 1..MaxCalls : CloseDone(c)
    \/ \E c \in 1..MaxCalls, cause \in Thrown : CloseFailed(c, cause)
    \/ GetSessionCall

Spec == Init /\ [][Next]_vars

(* ----------------- examples: the two connection testers ---------------- *)
(* testCDPConnection and testCDPConnectivity of                            *)
(* examples/browser-providers/test-cdp-connection.ts: a loop over a fixed  *)
(* list of endpoints, the body in a try block whose catch only reports.    *)
(* Each awaited call of the body is one step that is fulfilled or throws.  *)

\* `const endpoints = [...]` of testCDPConnection
ConnectionEndpoints ==
    << wsPrefix \o <<"localhost:9222", "/devtools/browser">>,
       wsPrefix \o <<"localhost:9222">>,
       wsPrefix \o <<"127.0.0.1:9222", "/devtools/browser">>,
       wsPrefix \o <<"127.0.0.1:9222">> >>

\* `const endpoints = [...]` of testCDPConnectivity
ConnectivityEndpoints ==
    << wsPrefix \o <<"localhost:9222", "/devtools/browser">>,
       wsPrefix \o <<"localhost:9222">> >>

TesterKinds == { "testCDPConnection", "testCDPConnectivity" }

EndpointsOf(kind) ==
    IF kind = "testCDPConnection" THEN ConnectionEndpoints
    ELSE ConnectivityEndpoints

\* the awaited calls between the connect and the close: the page check.
\* testCDPConnection always makes it; testCDPConnectivity makes it only
\* inside `if (contexts.length === 0)`
PageSteps(kind, nctx) ==
    IF kind = "testCDPConnection"
    THEN <<"getCurrentPage", "goto", "title">>
    ELSE IF nctx = 0
         THEN <<"newContext", "newPage", "goto", "title", "context.close">>
         ELSE <<>>

\* the tester when it is called
TesterStart(kind) ==
    [kind |-> kind, i |-> 1, pc |-> "connect", k |-> 0, nctx |-> 0,
     browser |-> Undefined, result |-> Undefined, runs |-> <<>>]

\* the record of the pass of the loop for the current endpoint
NewRun(ep) == [endpoint |-> ep, done |-> <<>>, failed |-> "", attempt |-> 0]

\* variant: a failing endpoint ends the loop, the tester gives up
AfterFailureAborts(t, step) ==
    [t EXCEPT !.runs[t.i].failed = step,
              !.pc = "done",
              !.result = Null,
              !.k = 0,
              !.browser = Undefined]

\* the catch block and the next pass of `for (const endpoint of endpoints)`;
\* after the last endpoint, `return null`
AfterFailure(t, step) ==
    [t EXCEPT !.runs[t.i].failed = step,
              !.i = t.i + 1,
              !.pc = IF t.i = Len(EndpointsOf(t.kind)) THEN "done" ELSE "connect",
              !.result = IF t.i = Len(EndpointsOf(t.kind)) THEN Null ELSE t.result,
              !.k = 0,
              !.browser = Undefined]

\* `await agent.initBrowser()` / `await chromium.connectOverCDP(...)`, and on
\* success `browser.contexts()` of testCDPConnectivity
TesterConnect(ok, nctx, cause) ==
    /\ tester.kind \in TesterKinds
    /\ tester.pc = "connect"
    /\ tester.kind = "testCDPConnection" => nctx = 0
    /\ clock' = clock + 1
    /\ LET ep == EndpointsOf(tester.kind)[tester.i]
           issued == IssueConnect(attempts, tester.i, ep, Obj(2))
           a == Len(issued)
           t == [tester EXCEPT !.runs = Append(tester.runs,
                                    [NewRun(ep) EXCEPT !.attempt = a])]
       IN IF ok
          THEN /\ attempts' = [issued EXCEPT ![a].status = "resolved",
                                             ![a].browser = Browser(a)]
               /\ tester' = [t EXCEPT
                     !.runs[t.i].done = <<"connect">>,
                     !.browser = Browser(a),
                     !.nctx = nctx,
                     !.pc = IF PageSteps(t.kind, nctx) = <<>> THEN "close"
                            ELSE "page"]
          ELSE /\ attempts' = [issued EXCEPT ![a].status = "rejected",
                                             ![a].cause = cause]
               /\ tester' = AfterFailure(t, "connect")
    /\ UNCHANGED <<phase, ctorError, wsEndpoint, options, debug, session,
                   closeReqs, calls, log>>

\* the next awaited call of the page check
TesterPage(ok) ==
    /\ tester.kind \in TesterKinds
    /\ tester.pc = "page"
    /\ clock' = clock + 1
    /\ LET steps == PageSteps(tester.kind, tester.nctx)
           step == steps[tester.k + 1]
       IN IF ok
          THEN tester' = [tester EXCEPT
                   !.runs[tester.i].done = Append(@, step),
                   !.k = tester.k + 1,
                   !.pc = IF tester.k + 1 = Len(steps) THEN "close" ELSE "page"]
          ELSE tester' = AfterFailure(tester, step)
    /\ UNCHANGED <<phase, ctorError, wsEndpoint, options, debug, session,
                   attempts, closeReqs, calls, log>>

\* `await agent.closeAgent()` / `await browser.close()`, then
\* `return endpoint`
TesterClose(ok, cause) ==
    /\ tester.kind \in TesterKinds
    /\ tester.pc = "close"
    /\ clock' = clock + 1
    /\ closeReqs' = Append(closeReqs,
           [caller |-> tester.i, target |-> tester.browser,
            status |-> IF ok THEN "resolved" ELSE "rejected",
            cause |-> IF ok THEN Undefined ELSE cause])
    /\ IF ok
       THEN tester' = [tester EXCEPT
                !.runs[tester.i].done = Append(@, "close"),
                !.pc = "done",
                !.result = Str(EndpointsOf(tester.kind)[tester.i])]
       ELSE tester' = AfterFailure(tester, "close")
    /\ UNCHANGED <<phase, ctorError, wsEndpoint, options, debug, session,
                   attempts, calls, log>>

InitTester ==
    /\ tester \in { TesterStart(kind) : kind \in TesterKinds }
    /\ phase = "new"
    /\ ctorError = Undefined
    /\ wsEndpoint = Undefined
    /\ options = Undefined
    /\ debug = FALSE
    /\ session = Undefined
    /\ attempts = <<>>
    /\ closeReqs = <<>>
    /\ calls = <<>>
    /\ log = <<>>
    /\ clock = 0

NextTester ==
    \/ \E ok \in BOOLEAN, nctx \in ContextCounts, cause \in Thrown :
          TesterConnect(ok, nctx, cause)
    \/ \E ok \in BOOLEAN : TesterPage(ok)
    \/ \E ok \in BOOLEAN, cause \in Thrown : TesterClose(ok, cause)

SpecTester == InitTester /\ [][NextTester]_vars

(* ------------------------- reading the history ------------------------- *)

CallIds == 1..Len(calls)

IsCall(c, op) == c \in CallIds /\ calls[c].op = op

\* a start() that has returned a Browser
StartReturned(c) == IsCall(c, "start") /\ calls[c].pc = "returned"

\* the endpoint has one of the two schemes, character by character
HasWsScheme(ep) ==
    \/ /\ Len(ep) >= 5
       /\ ep[1] = "w" /\ ep[2] = "s" /\ ep[3] = ":" /\ ep[4] = "/" /\ ep[5] = "/"
    \/ /\ Len(ep) >= 6
       /\ ep[1] = "w" /\ ep[2] = "s" /\ ep[3] = "s" /\ ep[4] = ":"
       /\ ep[5] = "/" /\ ep[6] = "/"

\* the step appends a call of `op`
CallStep(op) ==
    /\ Len(calls') = Len(calls) + 1
    /\ calls'[Len(calls')].op = op

\* the step completes a suspended call of `op`
ResumeStep(op) ==
    \E c \in CallIds :
        /\ calls[c].op = op
        /\ calls[c].pc = "await"
        /\ Len(calls') = Len(calls)
        /\ calls'[c].pc # "await"

\* the provider's own fields
providerState == <<wsEndpoint, options, debug, session>>

(* --------------------------------- C1 ---------------------------------- *)

EmptyOrMissingEndpoint(cfg) ==
    \/ cfg = NoArgument
    \/ cfg.wsEndpoint = Undefined
    \/ cfg.wsEndpoint = Str(<<>>)

\* C1: constructing with an empty or missing wsEndpoint (or with no argument)
\* throws the configuration error, and that construction issues no connection
\* attempt, neither in the constructor nor afterwards.
C1_CtorRejectsMissingEndpoint ==
    /\ [][phase = "new" =>
            \A cfg \in Configs :
                (EmptyOrMissingEndpoint(cfg) /\ Constructor(cfg)) =>
                    /\ phase' = "ctorThrew"
                    /\ ctorError' = ConfigError
                    /\ attempts' = <<>>
                    /\ closeReqs' = <<>>]_vars
    /\ [](phase = "ctorThrew" => attempts = <<>> /\ calls = <<>>)

C1_Witness ==
    /\ phase = "ctorThrew"
    /\ ctorError = ConfigError
    /\ attempts = <<>>

(* --------------------------------- C2 ---------------------------------- *)

IsFormatError(e, ep) ==
    /\ e.t = "Error"
    /\ StartsWith(e.message, <<"Invalid CDP WebSocket endpoint format: ">>)
    /\ Contains(e.message, ep)

\* C2: no connection attempt is ever issued for an endpoint that does not
\* begin with ws:// or wss://; on such an endpoint every start() fails with
\* the format error without an attempt, and leaves the session as it was.
C2_NoAttemptOnBadScheme ==
    /\ [](\A i \in 1..Len(attempts) : HasWsScheme(attempts[i].endpointURL))
    /\ []((phase = "constructed" /\ ~HasWsScheme(wsEndpoint.s)) =>
            \A c \in CallIds : calls[c].op = "start" =>
                /\ calls[c].pc = "threw"
                /\ IsFormatError(calls[c].error, wsEndpoint.s)
                /\ calls[c].attempt = 0)
    /\ [][(phase = "constructed" /\ ~HasWsScheme(wsEndpoint.s) /\ CallStep("start"))
            => (session' = session /\ attempts' = attempts)]_vars

C2_Witness ==
    /\ phase = "constructed"
    /\ wsEndpoint = Str(<<"w", "s", ":", "/", "h">>)
    /\ \E c \in CallIds : calls[c].op = "start" /\ calls[c].pc = "threw"
    /\ attempts = <<>>

(* --------------------------------- C3 ---------------------------------- *)

\* no start() stored a Browser strictly between clock values lo and hi
NoStartReturnedBetween(lo, hi) ==
    ~\E d \in CallIds : StartReturned(d) /\ lo < calls[d].end /\ calls[d].end < hi

\* C3: when the connection attempt of a start() succeeds, that start() returns
\* the Browser its own attempt produced, and a getSession() made afterwards,
\* with no other start() having stored a Browser in between, returns that
\* same Browser.
C3_StartReturnsItsHandle ==
    \A c \in CallIds : calls[c].op = "start" /\ calls[c].attempt # 0 =>
        LET a == attempts[calls[c].attempt] IN
        /\ a.caller = c
        /\ a.status = "resolved" =>
            /\ calls[c].pc = "returned"
            /\ a.browser.t = "browser"
            /\ calls[c].result = a.browser
            /\ \A g \in CallIds :
                  ( /\ calls[g].op = "getSession"
                    /\ calls[g].begin > calls[c].end
                    /\ NoStartReturnedBetween(calls[c].end, calls[g].begin) )
                  => calls[g].result = a.browser

C3_Witness ==
    \E c, g \in CallIds :
        /\ StartReturned(c)
        /\ calls[g].op = "getSession"
        /\ calls[g].begin = calls[c].end + 1
        /\ calls[g].result = calls[c].result
        /\ calls[g].result = Browser(calls[c].attempt)

(* --------------------------------- C4 ---------------------------------- *)

\* the message of the cause, or the stringified cause when it is no Error
CauseText(cause) ==
    IF cause.t = "Error" THEN cause.message
    ELSE IF cause.t = "undefined"
         THEN <<"u", "n", "d", "e", "f", "i", "n", "e", "d">>
         ELSE ToStringJS(cause)

\* C4: when the connection attempt of a start() fails, that start() throws an
\* Error whose message is the connection-error text and contains both the
\* attempted endpoint and the message of the cause (the stringified cause
\* when it is not an Error), and it returns no Browser.
C4_ConnectErrorNamesEndpointAndCause ==
    \A c \in CallIds :
        ( /\ calls[c].op = "start"
          /\ calls[c].attempt # 0
          /\ attempts[calls[c].attempt].status = "rejected" ) =>
        LET a == attempts[calls[c].attempt] IN
        /\ calls[c].pc = "threw"
        /\ calls[c].result = Undefined
        /\ calls[c].error.t = "Error"
        /\ StartsWith(calls[c].error.message,
                      <<"Failed to connect to CDP WebSocket endpoint: ">>)
        /\ Contains(calls[c].error.message, a.endpointURL)
        /\ Contains(calls[c].error.message, CauseText(a.cause))

C4_Witness ==
    \E c, d \in CallIds :
        /\ calls[c].op = "start" /\ calls[c].pc = "threw"
        /\ calls[c].attempt # 0
        /\ attempts[calls[c].attempt].cause = Undefined
        /\ calls[d].op = "start" /\ calls[d].pc = "threw"
        /\ calls[d].attempt # 0
        /\ attempts[calls[d].attempt].cause.t = "Error"

(* --------------------------------- C5 ---------------------------------- *)

AttemptsOf(c) == { i \in 1..Len(attempts) : attempts[i].caller = c }

\* C5: every start() issues exactly one connection attempt when the endpoint
\* passes the scheme check and none otherwise; once its attempt has failed
\* the call has thrown and has no attempt left pending.
C5_OneAttemptPerStart ==
    /\ \A c \in CallIds : calls[c].op = "start" =>
          /\ Cardinality(AttemptsOf(c)) =
                (IF HasWsScheme(wsEndpoint.s) THEN 1 ELSE 0)
          /\ (\E i \in AttemptsOf(c) : attempts[i].status = "rejected") =>
                /\ calls[c].pc = "threw"
                /\ \A i \in AttemptsOf(c) : attempts[i].status # "pending"
    /\ \A i \in 1..Len(attempts) : IsCall(attempts[i].caller, "start")

C5_Witness ==
    \E c \in CallIds :
        /\ calls[c].op = "start" /\ calls[c].pc = "threw"
        /\ Cardinality(AttemptsOf(c)) = 1
        /\ c < Len(calls)
        /\ Len(attempts) = 1

(* --------------------------------- C6 ---------------------------------- *)

\* no start() had stored a Browser before clock value t
NoStartReturnedBefore(t) ==
    ~\E d \in CallIds : StartReturned(d) /\ calls[d].end < t

RequestsOf(c) == { r \in 1..Len(closeReqs) : closeReqs[r].caller = c }

\* the step is a segment of a close() made before any start() succeeded
CloseStepWithoutSession ==
    \/ CallStep("close") /\ NoStartReturnedBefore(clock')
    \/ \E c \in CallIds :
          /\ calls[c].op = "close"
          /\ calls[c].pc = "await"
          /\ calls'[c].pc # "await"
          /\ NoStartReturnedBefore(calls[c].begin)

\* C6: a close() called when no start() has succeeded (none made, or all
\* failed) does not throw, sends no close request to the library, and
\* changes neither the provider's fields nor the log.
C6_CloseWithoutSessionIsNoOp ==
    /\ [](\A c \in CallIds :
            (calls[c].op = "close" /\ NoStartReturnedBefore(calls[c].begin)) =>
                /\ calls[c].pc # "threw"
                /\ calls[c].error = Undefined
                /\ calls[c].req = 0
                /\ RequestsOf(c) = {})
    /\ [][CloseStepWithoutSession =>
            /\ providerState' = providerState
            /\ closeReqs' = closeReqs
            /\ attempts' = attempts
            /\ log' = log]_vars

C6_Witness ==
    \E s, c \in CallIds :
        /\ calls[s].op = "start" /\ calls[s].pc = "threw" /\ calls[s].attempt # 0
        /\ calls[c].op = "close" /\ calls[c].pc = "returned"
        /\ calls[c].begin > calls[s].end
        /\ NoStartReturnedBefore(clock + 1)
        /\ closeReqs = <<>>
        /\ session = Undefined

(* --------------------------------- C7 ---------------------------------- *)

\* C7: getSession() never throws and changes nothing; it returns null while
\* no start() has succeeded, and otherwise the Browser stored by the most
\* recent successful start().
C7_GetSessionPureAndTotal ==
    /\ [](\A g \in CallIds : calls[g].op = "getSession" =>
            /\ calls[g].pc = "returned"
            /\ calls[g].error = Undefined
            /\ IF NoStartReturnedBefore(calls[g].begin)
               THEN calls[g].result = Null
               ELSE /\ calls[g].result.t = "browser"
                    /\ \E d \in CallIds :
                          /\ StartReturned(d)
                          /\ calls[d].end < calls[g].begin
                          /\ NoStartReturnedBetween(calls[d].end, calls[g].begin)
                          /\ calls[g].result = calls[d].result)
    /\ [][CallStep("getSession") =>
            /\ providerState' = providerState
            /\ attempts' = attempts
            /\ closeReqs' = closeReqs
            /\ log' = log
            /\ calls'[Len(calls')].result =
                  (IF session = Undefined THEN Null ELSE session)]_vars

C7_Witness ==
    \E g, h \in CallIds :
        /\ calls[g].op = "getSession" /\ calls[g].result = Null
        /\ calls[h].op = "getSession" /\ calls[h].result.t = "browser"
        /\ g < h

(* --------------------------------- C8 ---------------------------------- *)

\* start() c1 had returned before start() c2 was called, and c2 returned too
TwoStartsInSequence(c1, c2) ==
    /\ StartReturned(c1)
    /\ StartReturned(c2)
    /\ calls[c1].end < calls[c2].begin

\* C8: two start() calls in sequence, both succeeding, make two distinct
\* connection attempts that yield two distinct Browsers, and once the second
\* has returned the stored session is the second Browser, not the first.
C8_SecondStartOverwrites ==
    \A c1, c2 \in CallIds : TwoStartsInSequence(c1, c2) =>
        /\ calls[c1].attempt # calls[c2].attempt
        /\ AttemptsOf(c1) = {calls[c1].attempt}
        /\ AttemptsOf(c2) = {calls[c2].attempt}
        /\ attempts[calls[c1].attempt].browser # attempts[calls[c2].attempt].browser
        /\ NoStartReturnedBetween(calls[c2].end, clock + 1) =>
              /\ session = attempts[calls[c2].attempt].browser
              /\ session # calls[c1].result

C8_Witness ==
    \E c1, c2 \in CallIds :
        /\ TwoStartsInSequence(c1, c2)
        /\ session = Browser(calls[c2].attempt)
        /\ calls[c1].result = Browser(calls[c1].attempt)
        /\ Len(attempts) = 2

(* --------------------------------- C9 ---------------------------------- *)

\* start() s returned, then close() c ran to completion, then getSession() g
\* was called, and no other start() stored a Browser meanwhile
StartCloseGet(s, c, g) ==
    /\ StartReturned(s)
    /\ IsCall(c, "close") /\ calls[c].pc = "returned"
    /\ IsCall(g, "getSession")
    /\ calls[s].end < calls[c].begin
    /\ calls[c].end < calls[g].begin
    /\ NoStartReturnedBetween(calls[s].end, calls[g].begin)

\* C9: no segment of close() writes the session field; after a successful
\* start() followed by a completed close(), getSession() returns the Browser
\* that start() returned (the one the close request was sent to), not null.
C9_CloseKeepsSession ==
    /\ [][(CallStep("close") \/ ResumeStep("close")) => session' = session]_vars
    /\ [](\A s, c, g \in CallIds : StartCloseGet(s, c, g) =>
            /\ calls[c].req # 0
            /\ closeReqs[calls[c].req].target = calls[s].result
            /\ closeReqs[calls[c].req].status = "resolved"
            /\ calls[g].result = calls[s].result
            /\ calls[g].result # Null)

C9_Witness ==
    \E s, c, g \in CallIds :
        /\ StartCloseGet(s, c, g)
        /\ calls[g].result = Browser(calls[s].attempt)
        /\ closeReqs[calls[c].req].status = "resolved"

(* --------------------------------- C10 --------------------------------- *)

\* a close() has completed and no start() has stored a Browser since
ClosedAndNotRestarted ==
    \E c \in CallIds :
        /\ calls[c].op = "close"
        /\ calls[c].pc = "returned"
        /\ NoStartReturnedBetween(calls[c].end, clock + 1)

\* C10 as stated: the session reference is cleared at close time, so after
\* close() completes the provider holds no session handle.
C10_ClearedAtClose == ClosedAndNotRestarted => session = Undefined

\* C10, amended: the session reference is written by every successful
\* start() and by nothing else; close() does not clear it, so at any time,
\* also after a completed close(), the provider holds the Browser of the
\* most recent successful start(), and holds none only if no start() has
\* succeeded.
C10_WrittenAtConnectOnly ==
    /\ (session = Undefined) <=> NoStartReturnedBefore(clock + 1)
    /\ \A s \in CallIds :
          (StartReturned(s) /\ NoStartReturnedBetween(calls[s].end, clock + 1))
              => session = attempts[calls[s].attempt].browser

C10_Witness ==
    /\ ClosedAndNotRestarted
    /\ \E c \in CallIds :
          /\ calls[c].op = "close" /\ calls[c].pc = "returned"
          /\ calls[c].req # 0
          /\ closeReqs[calls[c].req].target = session
    /\ session.t = "browser"

(* --------------------------------- C11 --------------------------------- *)

\* a close request for Browser b has been fulfilled by the library
IsClosed(b) ==
    \E r \in 1..Len(closeReqs) :
        closeReqs[r].target = b /\ closeReqs[r].status = "resolved"

\* connections this provider opened and that are not closed yet
LiveSessions ==
    { i \in 1..Len(attempts) :
        attempts[i].status = "resolved" /\ ~IsClosed(attempts[i].browser) }

\* every call so far was made after the previous one had completed
CallsInSequence ==
    \A c, d \in CallIds :
        c < d => (calls[c].pc # "await" /\ calls[c].end < calls[d].begin)

\* C11: after any sequence of start() and close() calls the provider has at
\* most one live session, i.e. at most one connection that it opened and
\* that has not been closed.
C11_AtMostOneLiveSession == CallsInSequence => Cardinality(LiveSessions) <= 1

(* --------------------------------- C12 --------------------------------- *)

\* the lifecycle state the provider is in
Lifecycle ==
    IF session = Undefined THEN "unconnected"
    ELSE IF IsClosed(session) THEN "closed"
    ELSE "connected"

\* call c is a close() that closed a session, or a start() whose connection
\* attempt failed
ClosedOrFailed(c) ==
    \/ IsCall(c, "close") /\ calls[c].pc = "returned" /\ calls[c].req # 0
    \/ IsCall(c, "start") /\ calls[c].pc = "threw" /\ calls[c].attempt # 0

\* C12 as stated: the lifecycle is one-directional; after a close() that
\* completed on a connected provider, or after a failed start(), no later
\* start() connects the provider again.
C12_OneDirectional ==
    \A c, s \in CallIds :
        (ClosedOrFailed(c) /\ IsCall(s, "start") /\ calls[s].begin > calls[c].end)
            => ~StartReturned(s)

\* C12, amended: the provider never returns to unconnected once a session
\* is stored, but connected is not left for good: every start() on a valid
\* endpoint, in whatever lifecycle state it is called (also after a
\* completed close() or a failed start()), issues a fresh connection
\* attempt, and when that attempt succeeds the provider is connected again,
\* holding the new Browser, until a later close().
C12_RestartableLifecycle ==
    /\ [][session # Undefined => session' # Undefined]_vars
    /\ [](\A s \in CallIds :
            (calls[s].op = "start" /\ HasWsScheme(wsEndpoint.s)) =>
                /\ calls[s].attempt # 0
                /\ attempts[calls[s].attempt].caller = s)
    /\ [](\A s \in CallIds :
            ( /\ StartReturned(s)
              /\ NoStartReturnedBetween(calls[s].end, clock + 1)
              /\ ~\E c \in CallIds :
                    calls[c].op = "close" /\ calls[c].begin > calls[s].end )
            => /\ Lifecycle = "connected"
               /\ session = attempts[calls[s].attempt].browser)

C12_Witness ==
    \E c, s \in CallIds :
        /\ IsCall(c, "close") /\ calls[c].pc = "returned" /\ calls[c].req # 0
        /\ StartReturned(s)
        /\ calls[s].begin > calls[c].end
        /\ Lifecycle = "connected"
        /\ session = calls[s].result
        /\ IsClosed(closeReqs[calls[c].req].target)

(* --------------------------------- C13 --------------------------------- *)

\* the close request of close() call c was rejected by the library
CloseRejected(c) ==
    /\ IsCall(c, "close")
    /\ calls[c].req # 0
    /\ closeReqs[calls[c].req].status = "rejected"

\* C13: when the library's close fails, close() throws the very value the
\* library rejected with, not wrapped and not changed, and the segment of
\* close() that throws leaves the session and the other fields as they were.
C13_CloseErrorPropagatesUnchanged ==
    /\ [](\A c \in CallIds : CloseRejected(c) =>
            /\ calls[c].pc = "threw"
            /\ calls[c].error = closeReqs[calls[c].req].cause
            /\ calls[c].result = Undefined)
    /\ [][\A c \in CallIds :
            (calls[c].op = "close" /\ calls[c].pc = "await"
                /\ calls'[c].pc = "threw")
            => providerState' = providerState]_vars

C13_Witness ==
    \E c \in CallIds :
        /\ CloseRejected(c)
        /\ calls[c].error = ErrorObj(<<"E", "C", "O", "N", "N">>)
        /\ session = closeReqs[calls[c].req].target
        /\ session.t = "browser"

(* --------------------------------- C14 --------------------------------- *)

\* what call c has done so far, as a function of the endpoint and of what
\* the library answered; the debug flag is no argument of it
OutcomeWithoutDebug(c) ==
    LET none == [pc |-> "await", result |-> Undefined, error |-> Undefined]
    IN
    CASE calls[c].op = "start" /\ calls[c].attempt = 0 ->
            [none EXCEPT !.pc = "threw", !.error = FormatError(wsEndpoint.s)]
      [] calls[c].op = "start" /\ calls[c].attempt # 0 ->
            LET a == attempts[calls[c].attempt] IN
            ( CASE a.status = "pending"  -> none
                [] a.status = "resolved" ->
                      [none EXCEPT !.pc = "returned", !.result = a.browser]
                [] a.status = "rejected" ->
                      [none EXCEPT !.pc = "threw",
                                   !.error = ConnectError(a.endpointURL, a.cause)] )
      [] calls[c].op = "close" /\ calls[c].req = 0 ->
            [none EXCEPT !.pc = calls[c].pc]
      [] calls[c].op = "close" /\ calls[c].req # 0 ->
            LET r == closeReqs[calls[c].req] IN
            ( CASE r.status = "pending"  -> none
                [] r.status = "resolved" -> [none EXCEPT !.pc = "returned"]
                [] r.status = "rejected" ->
                      [none EXCEPT !.pc = "threw", !.error = r.cause] )
      [] calls[c].op = "getSession" ->
            [none EXCEPT
                !.pc = "returned",
                !.result =
                    IF NoStartReturnedBefore(calls[c].begin) THEN Null
                    ELSE LET d == CHOOSE d \in CallIds :
                                    /\ StartReturned(d)
                                    /\ calls[d].end < calls[c].begin
                                    /\ NoStartReturnedBetween(calls[d].end,
                                                              calls[c].begin)
                         IN calls[d].result]

\* the session the provider holds, as a function of the library's answers
SessionWithoutDebug ==
    IF NoStartReturnedBefore(clock + 1) THEN Undefined
    ELSE LET d == CHOOSE d \in CallIds :
                    /\ StartReturned(d)
                    /\ NoStartReturnedBetween(calls[d].end, clock + 1)
         IN attempts[calls[d].attempt].browser

\* C14: the console is written only when debug is set: with debug off the
\* log stays empty whatever is called and however it ends; and debug
\* changes nothing else: what every call returns or throws, and the stored
\* session, are given by the endpoint and the library's answers alone, by
\* the same function with debug on as with debug off.
C14_LoggingGatedByDebug ==
    /\ [](~debug => log = <<>>)
    /\ [][log' # log => debug]_vars
    /\ [](\A c \in CallIds :
            /\ calls[c].pc = OutcomeWithoutDebug(c).pc
            /\ calls[c].result = OutcomeWithoutDebug(c).result
            /\ calls[c].error = OutcomeWithoutDebug(c).error)
    /\ [](session = SessionWithoutDebug)

C14_Witness ==
    /\ phase = "constructed"
    /\ ~debug
    /\ log = <<>>
    /\ \E f, s, c \in CallIds :
          /\ calls[f].op = "start" /\ calls[f].pc = "threw" /\ calls[f].attempt # 0
          /\ StartReturned(s)
          /\ IsCall(c, "close") /\ calls[c].pc = "returned" /\ calls[c].req # 0

(* --------------------------------- C15 --------------------------------- *)

\* the step is the segment of a start() in which it throws
StartThrowsStep ==
    \/ CallStep("start") /\ calls'[Len(calls')].pc = "threw"
    \/ \E c \in CallIds :
          calls[c].op = "start" /\ calls[c].pc = "await" /\ calls'[c].pc = "threw"

\* what getSession() returned, or would have returned, just before clock
\* value t: the Browser of the last start() that had succeeded by then
SessionSeenBefore(t) ==
    IF NoStartReturnedBefore(t) THEN Null
    ELSE LET d == CHOOSE d \in CallIds :
                    /\ StartReturned(d)
                    /\ calls[d].end < t
                    /\ NoStartReturnedBetween(calls[d].end, t)
         IN calls[d].result

\* C15: a start() that fails, with the format error or with a connection
\* error, does not write the session field; a getSession() made after the
\* failure (no other start() having succeeded since) returns what it would
\* have returned before it: the Browser of the earlier successful start(),
\* or null if none had succeeded.
C15_FailedStartKeepsSession ==
    /\ [][StartThrowsStep => session' = session]_vars
    /\ [](\A f, g \in CallIds :
            ( /\ calls[f].op = "start" /\ calls[f].pc = "threw"
              /\ calls[g].op = "getSession"
              /\ calls[g].begin > calls[f].end
              /\ NoStartReturnedBetween(calls[f].end, calls[g].begin) )
            => calls[g].result = SessionSeenBefore(calls[f].end))

C15_Witness ==
    \E s, f, g \in CallIds :
        /\ StartReturned(s)
        /\ calls[f].op = "start" /\ calls[f].pc = "threw"
        /\ calls[s].end < calls[f].begin
        /\ calls[g].op = "getSession"
        /\ calls[g].begin > calls[f].end
        /\ calls[g].result = calls[s].result
        /\ calls[g].result.t = "browser"

(* --------------------------------- C16 --------------------------------- *)

\* start() c2 was called while start() c1 was awaiting its connection, and
\* both have returned
TwoStartsInFlight(c1, c2) ==
    /\ StartReturned(c1)
    /\ StartReturned(c2)
    /\ calls[c1].begin < calls[c2].begin
    /\ calls[c2].begin < calls[c1].end

\* of two calls, the one that completed last
LastToResolve(c1, c2) == IF calls[c1].end > calls[c2].end THEN c1 ELSE c2

\* C16: two start() calls in flight at once, both succeeding, each return
\* the Browser of their own connection attempt, never the other's; and the
\* stored session ends as the Browser of the attempt that resolved last,
\* whichever start() was called first.
C16_ConcurrentStartsLastResolvedWins ==
    \A c1, c2 \in CallIds : TwoStartsInFlight(c1, c2) =>
        /\ attempts[calls[c1].attempt].caller = c1
        /\ attempts[calls[c2].attempt].caller = c2
        /\ calls[c1].result = attempts[calls[c1].attempt].browser
        /\ calls[c2].result = attempts[calls[c2].attempt].browser
        /\ calls[c1].result # calls[c2].result
        /\ NoStartReturnedBetween(calls[LastToResolve(c1, c2)].end, clock + 1)
              => session = calls[LastToResolve(c1, c2)].result

C16_Witness ==
    \E c1, c2 \in CallIds :
        /\ TwoStartsInFlight(c1, c2)
        /\ calls[c2].end < calls[c1].end
        /\ session = calls[c1].result
        /\ session = Browser(calls[c1].attempt)
        /\ calls[c2].result = Browser(calls[c2].attempt)

(* --------------------------------- C17 --------------------------------- *)

\* close() c was called while start() s was awaiting its connection, on a
\* provider on which no start() had succeeded yet
CloseDuringFirstStart(s, c) ==
    /\ IsCall(s, "start") /\ calls[s].attempt # 0
    /\ IsCall(c, "close")
    /\ calls[s].begin < calls[c].begin
    /\ (calls[s].pc = "await" \/ calls[c].begin < calls[s].end)
    /\ NoStartReturnedBefore(calls[c].begin)

\* C17: a close() that runs while a start() is awaiting its connection, on
\* a provider with no earlier session, does nothing: it does not throw and
\* sends no close request.  The Browser that the start() then obtains is
\* stored, and a close request reaches it only from a close() called after
\* that start() returned: until then it stays live.
C17_CloseDuringStartIsNoOp ==
    \A s, c \in CallIds : CloseDuringFirstStart(s, c) =>
        /\ calls[c].pc # "threw"
        /\ calls[c].req = 0
        /\ RequestsOf(c) = {}
        /\ StartReturned(s) =>
              LET b == attempts[calls[s].attempt].browser IN
              /\ calls[s].result = b
              /\ NoStartReturnedBetween(calls[s].end, clock + 1) => session = b
              /\ \A r \in 1..Len(closeReqs) :
                    closeReqs[r].target = b =>
                        calls[closeReqs[r].caller].begin > calls[s].end
              /\ (~\E d \in CallIds :
                      calls[d].op = "close" /\ calls[d].begin > calls[s].end)
                    => b \in { attempts[i].browser : i \in LiveSessions }

C17_Witness ==
    \E s, c \in CallIds :
        /\ CloseDuringFirstStart(s, c)
        /\ StartReturned(s)
        /\ calls[c].pc = "returned"
        /\ calls[c].end > calls[s].end
        /\ session = calls[s].result
        /\ ~IsClosed(session)

(* --------------------------------- C18 --------------------------------- *)

\* start() s returned, then close() c1 ran to completion, then close() c2
\* was called, and no other start() stored a Browser meanwhile
StartCloseClose(s, c1, c2) ==
    /\ StartReturned(s)
    /\ IsCall(c1, "close") /\ calls[c1].pc = "returned"
    /\ IsCall(c2, "close")
    /\ calls[s].end < calls[c1].begin
    /\ calls[c1].end < calls[c2].begin
    /\ NoStartReturnedBetween(calls[s].end, calls[c2].begin)

\* close requests sent to the library for Browser b
RequestsFor(b) == { r \in 1..Len(closeReqs) : closeReqs[r].target = b }

\* C18 as stated: after a successful start(), a second close() in a row
\* issues no further close request: the library sees what it sees after one.
C18_SecondCloseSendsNothing ==
    \A s, c1, c2 \in CallIds : StartCloseClose(s, c1, c2) =>
        /\ calls[c2].req = 0
        /\ Cardinality(RequestsFor(calls[s].result)) = 1

\* C18, amended: after a successful start(), each of two close() calls in a
\* row sends its own close request to the library, both for the same stored
\* Browser; the calls are idempotent only on the provider's state, which
\* neither changes.
C18_EveryCloseSendsARequest ==
    \A s, c1, c2 \in CallIds : StartCloseClose(s, c1, c2) =>
        /\ calls[c1].req # 0
        /\ calls[c2].req # 0
        /\ calls[c1].req # calls[c2].req
        /\ closeReqs[calls[c1].req].target = calls[s].result
        /\ closeReqs[calls[c2].req].target = calls[s].result
        /\ NoStartReturnedBetween(calls[s].end, clock + 1)
              => session = calls[s].result

C18_Witness ==
    \E s, c1, c2 \in CallIds :
        /\ StartCloseClose(s, c1, c2)
        /\ calls[c2].pc = "returned"
        /\ Cardinality(RequestsFor(calls[s].result)) = 2
        /\ session = calls[s].result

(* ------------------------- the connection testers ---------------------- *)

\* the passes of the loop made so far
RunIds == 1..Len(tester.runs)

\* the pass connected, made the page check (a navigation and a title read)
\* and closed
FullyChecked(r) ==
    /\ r.failed = ""
    /\ \E n \in 1..Len(r.done) : r.done[n] = "connect"
    /\ \E n \in 1..Len(r.done) : r.done[n] = "goto"
    /\ \E n \in 1..Len(r.done) : r.done[n] = "title"
    /\ \E n \in 1..Len(r.done) : r.done[n] = "close"

\* the pass ran to `return endpoint`: every call it made was fulfilled
Completed(r) ==
    /\ r.failed = ""
    /\ \E nctx \in ContextCounts :
          r.done = <<"connect">> \o PageSteps(tester.kind, nctx) \o <<"close">>

TesterDone == tester.kind \in TesterKinds /\ tester.pc = "done"

\* C19 as stated: a finished tester returns the first endpoint for which
\* connecting, the page check and closing all succeeded, and null when there
\* is no such endpoint.  Violated: testCDPConnectivity makes no page check
\* when the browser already has a context, and still returns the endpoint.
C19_FirstFullyCheckedEndpoint ==
    TesterDone =>
        IF \E j \in RunIds : FullyChecked(tester.runs[j])
        THEN LET j == CHOOSE m \in RunIds :
                          /\ FullyChecked(tester.runs[m])
                          /\ \A n \in 1..(m - 1) : ~FullyChecked(tester.runs[n])
             IN tester.result = Str(tester.runs[j].endpoint)
        ELSE tester.result = Null

\* C19 (amended): the testers try the endpoints strictly in list order, one
\* connection attempt each; the first endpoint whose pass completes (the
\* connect, the page check where the tester makes one, the close) is
\* returned and no endpoint is tried after it; null is returned exactly when
\* the pass of every endpoint of the list failed, so a failure never ends
\* the loop early.
C19_FirstCompletedEndpoint ==
    tester.kind \in TesterKinds =>
        /\ Len(tester.runs) <= Len(EndpointsOf(tester.kind))
        /\ Len(attempts) = Len(tester.runs)
        /\ \A j \in RunIds :
              /\ tester.runs[j].endpoint = EndpointsOf(tester.kind)[j]
              /\ tester.runs[j].attempt = j
              /\ attempts[j].endpointURL = EndpointsOf(tester.kind)[j]
              /\ Completed(tester.runs[j]) =>
                    /\ j = Len(tester.runs)
                    /\ tester.pc = "done"
                    /\ tester.result = Str(tester.runs[j].endpoint)
              /\ j < Len(tester.runs) => tester.runs[j].failed # ""
        /\ tester.pc = "done" =>
              /\ tester.result \in { Null, Str(tester.runs[Len(tester.runs)].endpoint) }
              /\ tester.result # Null => Completed(tester.runs[Len(tester.runs)])
              /\ tester.result = Null <=>
                    /\ Len(tester.runs) = Len(EndpointsOf(tester.kind))
                    /\ \A j \in RunIds : tester.runs[j].failed # ""
        /\ tester.pc # "done" => tester.result = Undefined

\* a tester whose first endpoint failed after the connect and whose second
\* endpoint was returned
C19_Witness ==
    /\ TesterDone
    /\ Len(tester.runs) = 2
    /\ tester.runs[1].failed \notin { "", "connect" }
    /\ Completed(tester.runs[2])
    /\ tester.result = Str(EndpointsOf(tester.kind)[2])

\* C20 as stated: when a tester has finished, every connection it opened has
\* been sent a close request.  Violated: the catch block only reports, so the
\* connection of a pass that failed after its connect is never closed.
C20_EveryOpenedConnectionClosed ==
    TesterDone =>
        \A a \in 1..Len(attempts) :
            attempts[a].status = "resolved" =>
                \E q \in 1..Len(closeReqs) :
                    closeReqs[q].target = attempts[a].browser

====
